---- MODULE Spec2Model ----
(***************************************************************************)
(* Steam library statistics: the analytics core (GameDataAnalyzer), the    *)
(* agent that loads a library and answers tool queries (SteamStatsAgent),  *)
(* and the session that run.py drives.                                     *)
(*                                                                         *)
(* Representation                                                          *)
(*  - a Python dict is a TLA+ record; a key that is absent from the dict   *)
(*    is absent from the record's DOMAIN, so dict.get(k, d) is Get below;  *)
(*  - a str that the program compares or renders (game names, dates) is    *)
(*    the sequence of its character codes, so that str comparison is the   *)
(*    lexicographic comparison of code points Python performs;             *)
(*  - a float that the program rounds to one decimal is the integer        *)
(*    number of tenths (10.5 hours is 105);                                *)
(*  - a reading of the clock is [sec, frac]: whole epoch seconds and       *)
(*    whether there is a non-zero sub-second part; tz is the zone of the   *)
(*    process, and a naive local datetime is the number of seconds since   *)
(*    the naive 1970-01-01 00:00:00;                                       *)
(*  - a call that raises has the value Raised(message) as its result;      *)
(*  - load_frame and query_frame are the frames of a load_user_data call    *)
(*    and of a tool call that have started and not yet returned;           *)
(*  - handler, time_time and requests are a SteamAPIHandler studied on its *)
(*    own, the reading of time.time() and the HTTP requests sent; where    *)
(*    the agent is studied, its handler is represented by the answers it   *)
(*    gives and these three stay as they start.                            *)
(***************************************************************************)
EXTENDS Integers, Sequences, FiniteSets, TLC

VARIABLES library_data, game_analyzer, analysis_data, main_pc, call, result,
          load_frame, query_frame, tz, handler, time_time, requests

vars == <<library_data, game_analyzer, analysis_data, main_pc, call, result,
          load_frame, query_frame, tz, handler, time_time, requests>>

\* Python's None
None == [none |-> TRUE]

\* ------------------------------------------------------------------------
\* Bounds of the model
\* ------------------------------------------------------------------------

\* the largest number of game entries in a fetched library
MaxGames == 2

\* ------------------------------------------------------------------------
\* Strings
\* ------------------------------------------------------------------------

STR_Never == <<78, 101, 118, 101, 114>>

STR_UnknownGame == <<85, 110, 107, 110, 111, 119, 110, 32, 71, 97, 109, 101>>

\* %b in the C locale
MonthAbbr ==
  << <<74, 97, 110>>, <<70, 101, 98>>, <<77, 97, 114>>, <<65, 112, 114>>,
     <<77, 97, 121>>, <<74, 117, 110>>, <<74, 117, 108>>, <<65, 117, 103>>,
     <<83, 101, 112>>, <<79, 99, 116>>, <<78, 111, 118>>, <<68, 101, 99>> >>

Digit(d) == 48 + d

\* str < str: the first differing code point decides, a proper prefix is less
StrLess(a, b) ==
  \E k \in 1..(Len(b)) :
     /\ \A j \in 1..(k - 1) : j <= Len(a) /\ a[j] = b[j]
     /\ k - 1 <= Len(a)
     /\ \/ k > Len(a)
        \/ a[k] < b[k]

\* str.lower() on ASCII text
lower(s) == [k \in 1..Len(s) |-> IF s[k] \in 65..90 THEN s[k] + 32 ELSE s[k]]

\* needle in hay, for two str
Contains(needle, hay) ==
  \E i \in 0..(Len(hay) - Len(needle)) :
     SubSeq(hay, i + 1, i + Len(needle)) = needle

\* ------------------------------------------------------------------------
\* Built-ins
\* ------------------------------------------------------------------------

\* dict.get(key, default)
Get(d, key, default) == IF key \in DOMAIN d THEN d[key] ELSE default

\* a call that raises an exception with this message
Raised(message) == [raised |-> message]

IsRaised(x) == "raised" \in DOMAIN x

Min(a, b) == IF a <= b THEN a ELSE b

Max(a, b) == IF a >= b THEN a ELSE b

\* seq[:limit] : the first limit elements; a negative limit drops the last
\* -limit elements
SliceTo(seq, limit) ==
  LET n == IF limit >= 0 THEN Min(limit, Len(seq)) ELSE Max(Len(seq) + limit, 0)
  IN  SubSeq(seq, 1, n)

\* sorted(seq, key=...) and sorted(seq, key=..., reverse=True): a stable sort.
\* before[i, j] is "the key of seq[i] orders strictly before the key of
\* seq[j]" (key(a) < key(b), or key(a) > key(b) under reverse=True).
\* Elements whose keys are equal keep their input order in both directions.
sorted(seq, before) ==
  LET n == Len(seq)
      rank(i) == Cardinality({j \in 1..n :
                    \/ before[j, i]
                    \/ (~before[i, j] /\ j < i)})
  IN  [k \in 1..n |-> seq[CHOOSE i \in 1..n : rank(i) = k - 1]]

\* Ties of round(x, 1) whose value has no exact binary representation: the
\* direction is that of the representation error of the double.  Tabulated
\* from CPython as <<numerator, denominator>> of the value in tenths, for the
\* totals the libraries of GameCatalog produce.
InexactTieUp ==
  {<<27, 2>>, <<37, 2>>, <<42, 4>>, <<47, 2>>, <<57, 6>>, <<62, 4>>, <<63, 6>>,
   <<93, 6>>, <<138, 4>>, <<153, 6>>, <<158, 4>>, <<238, 4>>, <<322, 4>>,
   <<327, 6>>, <<417, 6>>}

InexactTieDown ==
  {<<17, 2>>, <<33, 2>>, <<43, 2>>, <<58, 4>>, <<78, 4>>, <<82, 4>>, <<87, 6>>,
   <<117, 2>>, <<127, 2>>, <<142, 4>>, <<147, 6>>, <<162, 4>>, <<177, 6>>,
   <<222, 4>>, <<237, 6>>, <<242, 4>>, <<243, 6>>, <<333, 6>>}

\* round(x, 1) in tenths, for x = (n / d) / 10 with n >= 0 and d > 0: the
\* nearest tenth; a tie whose value (2q+1)/20 is exact in binary (5 divides
\* 2q+1) goes to the even tenth, any other tie as tabulated.
round1(n, d) ==
  LET q == n \div d
      r == n % d
  IN  CASE 2 * r < d -> q
        [] 2 * r > d -> q + 1
        [] 2 * r = d /\ (2 * q + 1) % 5 = 0 -> IF q % 2 = 0 THEN q ELSE q + 1
        [] 2 * r = d /\ (2 * q + 1) % 5 # 0 /\ <<n, d>> \in InexactTieUp -> q + 1
        [] 2 * r = d /\ (2 * q + 1) % 5 # 0 /\ <<n, d>> \in InexactTieDown -> q

\* ------------------------------------------------------------------------
\* Dates
\* ------------------------------------------------------------------------

SecondsPerDay == 86400

\* datetime.fromtimestamp(timestamp): the civil date of an epoch second
CivilFromDays(days) ==
  LET z   == days + 719468
      era == z \div 146097
      doe == z - era * 146097
      yoe == (doe - doe \div 1460 + doe \div 36524 - doe \div 146096) \div 365
      doy == doe - (365 * yoe + yoe \div 4 - yoe \div 100)
      mp  == (5 * doy + 2) \div 153
      d   == doy - (153 * mp + 2) \div 5 + 1
      m   == IF mp < 10 THEN mp + 3 ELSE mp - 9
      y   == yoe + era * 400 + (IF m <= 2 THEN 1 ELSE 0)
  IN  [year |-> y, month |-> m, day |-> d]

\* date.strftime("%b %d, %Y")
strftime(date) ==
  MonthAbbr[date.month]
    \o <<32, Digit(date.day \div 10), Digit(date.day % 10), 44, 32>>
    \o <<Digit(date.year \div 1000), Digit((date.year \div 100) % 10),
         Digit((date.year \div 10) % 10), Digit(date.year % 10)>>

\* the zones a process of the model runs in, as the TZ of its environment
Zones == {"UTC", "Europe/London"}

\* Europe/London: the periods of summer time from 1967 to 2037, each from its
\* first epoch second to the first epoch second after it (the period that
\* ends in 1971 is British Standard Time)
SummerTime ==
  {<<-88034400, -68680800>>, <<-59004000, 57722400>>, <<69818400, 89172000>>,
   <<101268000, 120621600>>, <<132717600, 152071200>>,
   <<164167200, 183520800>>, <<196221600, 214970400>>,
   <<227671200, 246420000>>, <<259120800, 278474400>>,
   <<290570400, 309924000>>, <<322020000, 341373600>>,
   <<354675600, 372819600>>, <<386125200, 404269200>>,
   <<417574800, 435718800>>, <<449024400, 467773200>>,
   <<481078800, 499222800>>, <<512528400, 530672400>>,
   <<543978000, 562122000>>, <<575427600, 593571600>>,
   <<606877200, 625626000>>, <<638326800, 657075600>>,
   <<670381200, 688525200>>, <<701830800, 719974800>>,
   <<733280400, 751424400>>, <<764730000, 782874000>>,
   <<796179600, 814323600>>, <<828234000, 846378000>>,
   <<859683600, 877827600>>, <<891133200, 909277200>>,
   <<922582800, 941331600>>, <<954032400, 972781200>>,
   <<985482000, 1004230800>>, <<1017536400, 1035680400>>,
   <<1048986000, 1067130000>>, <<1080435600, 1099184400>>,
   <<1111885200, 1130634000>>, <<1143334800, 1162083600>>,
   <<1174784400, 1193533200>>, <<1206838800, 1224982800>>,
   <<1238288400, 1256432400>>, <<1269738000, 1288486800>>,
   <<1301187600, 1319936400>>, <<1332637200, 1351386000>>,
   <<1364691600, 1382835600>>, <<1396141200, 1414285200>>,
   <<1427590800, 1445734800>>, <<1459040400, 1477789200>>,
   <<1490490000, 1509238800>>, <<1521939600, 1540688400>>,
   <<1553994000, 1572138000>>, <<1585443600, 1603587600>>,
   <<1616893200, 1635642000>>, <<1648342800, 1667091600>>,
   <<1679792400, 1698541200>>, <<1711846800, 1729990800>>,
   <<1743296400, 1761440400>>, <<1774746000, 1792890000>>,
   <<1806195600, 1824944400>>, <<1837645200, 1856394000>>,
   <<1869094800, 1887843600>>, <<1901149200, 1919293200>>,
   <<1932598800, 1950742800>>, <<1964048400, 1982797200>>,
   <<1995498000, 2014246800>>, <<2026947600, 2045696400>>,
   <<2058397200, 2077146000>>, <<2090451600, 2108595600>>,
   <<2121901200, 2140045200>>}

\* time.localtime(u).tm_gmtoff: the seconds local time is ahead of UTC at the
\* epoch second u
utcoffset(u) ==
  IF tz = "UTC" THEN 0
  ELSE IF \E p \in SummerTime : p[1] <= u /\ u < p[2] THEN 3600 ELSE 0

\* datetime.fromtimestamp(u) and datetime.now() at the epoch second u: the
\* naive local datetime, as seconds since the naive 1970-01-01 00:00:00
local(u) == u + utcoffset(u)

\* naive.timestamp(), on whole seconds, for a datetime with fold = 0, in a
\* zone whose local time is UTC or one hour ahead of it: the instant whose
\* local time is t, the earlier one when t occurs twice; a local time the
\* zone skips is read with the offset in force before the skip, and so gives an
\* instant after the skip.  (datetime._mktime finds it by trying the offsets
\* in force around t.)
_mktime(t) == IF local(t - 3600) = t THEN t - 3600 ELSE t

\* naive - timedelta(days=days), done on the (days, seconds) of the naive
\* local datetime
minus_days(naive, days) ==
  (naive \div SecondsPerDay - days) * SecondsPerDay + (naive % SecondsPerDay)

\* int(x) of a float x = s + fraction: truncation toward zero
int_of(s, frac) == IF s < 0 /\ frac THEN s + 1 ELSE s

\* int((datetime.now() - timedelta(days=days)).timestamp())
cutoff_timestamp(clock, days) ==
  int_of(_mktime(minus_days(local(clock.sec), days)), clock.frac)

\* datetime.min, 0001-01-01, as a day of the epoch
MinDay == -719162

\* datetime.now() - timedelta(days=days) raises OverflowError when the date
\* would precede datetime.min, and .timestamp() raises ValueError on a
\* datetime of the day datetime.min
cutoff_raises(clock, days) ==
  local(clock.sec) \div SecondsPerDay - days <= MinDay

cutoff_error(clock, days) ==
  IF local(clock.sec) \div SecondsPerDay - days < MinDay
    THEN Raised("date value out of range")
    ELSE Raised("year 0 is out of range")

\* (datetime.now() - datetime.fromtimestamp(last_played)).days: the
\* difference of two naive local datetimes
days_since(clock, last_played) ==
  (local(clock.sec) - local(last_played)) \div SecondsPerDay

\* ------------------------------------------------------------------------
\* GameDataAnalyzer
\* ------------------------------------------------------------------------

\* GameDataAnalyzer(game_data): the analyzer keeps the payload and reads its
\* "games" and "game_count" with defaults
GameDataAnalyzer(game_data) ==
  [game_data  |-> game_data,
   games      |-> Get(game_data, "games", <<>>),
   game_count |-> Get(game_data, "game_count", 0)]

\* an entry of "games" that is not a dict (a JSON null): game.get raises
\* AttributeError in whichever loop, sort key or max key reads it first
unreadable(games) == \E k \in 1..Len(games) : games[k] = None

AttributeError == Raised("'NoneType' object has no attribute 'get'")

\* the conversion that drops the fraction instead of rounding
_minutes_to_hours_Truncating(minutes) == minutes \div 6

_minutes_to_hours(minutes) == round1(minutes, 6)

_format_timestamp(timestamp) ==
  IF timestamp = 0
    THEN STR_Never
    ELSE strftime(CivilFromDays(local(timestamp) \div SecondsPerDay))

\* the dict whose name defaults to the empty string, as the name does in the
\* comparisons of find_game_stats
GameView_EmptyName(game) ==
  [name           |-> Get(game, "name", <<>>),
   appid          |-> Get(game, "appid", 0),
   playtime_hours |-> _minutes_to_hours(Get(game, "playtime_forever", 0)),
   last_played    |-> _format_timestamp(Get(game, "rtime_last_played", 0))]

\* the dict built for one game by the query loops
GameView(game) ==
  [name           |-> Get(game, "name", STR_UnknownGame),
   appid          |-> Get(game, "appid", 0),
   playtime_hours |-> _minutes_to_hours(Get(game, "playtime_forever", 0)),
   last_played    |-> _format_timestamp(Get(game, "rtime_last_played", 0))]

\* sum(game.get("playtime_forever", 0) for game in games)
SumPlaytime(games) ==
  LET acc[i \in 0..Len(games)] ==
        IF i = 0 THEN 0 ELSE acc[i - 1] + Get(games[i], "playtime_forever", 0)
  IN  acc[Len(games)]

get_total_playtime(self) ==
  IF unreadable(self.games) THEN AttributeError
  ELSE _minutes_to_hours(SumPlaytime(self.games))

\* the sort without reverse=True
MostPlayedBefore_Ascending(a, b) ==
  Get(a, "playtime_forever", 0) < Get(b, "playtime_forever", 0)

MostPlayedBefore(a, b) ==
  Get(a, "playtime_forever", 0) > Get(b, "playtime_forever", 0)

get_most_played_games(self, limit) ==
  IF unreadable(self.games) THEN AttributeError ELSE
  LET sorted_games ==
        sorted(self.games,
               [i, j \in 1..Len(self.games) |->
                  MostPlayedBefore(self.games[i], self.games[j])])
      top          == SliceTo(sorted_games, limit)
  IN  [k \in 1..Len(top) |-> GameView(top[k])]

\* the analyzer after self.games.sort(key=..., reverse=True), which orders the
\* list itself
after_get_most_played_games_SortedInPlace(self) ==
  IF unreadable(self.games) THEN self
  ELSE [self EXCEPT !.games =
          sorted(self.games,
                 [i, j \in 1..Len(self.games) |->
                    MostPlayedBefore(self.games[i], self.games[j])])]

\* the analyzer after get_most_played_games: sorted() builds a new list, the
\* slice and the loop build new objects, and nothing is assigned to self
after_get_most_played_games(self) == self

\* the test with the boundary on the wrong side
UnplayedTest_AtMost60(game) == Get(game, "playtime_forever", 0) <= 60

UnplayedTest(game) == Get(game, "playtime_forever", 0) < 60

get_unplayed_games(self) ==
  IF unreadable(self.games) THEN AttributeError ELSE
  LET unplayed[i \in 0..Len(self.games)] ==
        IF i = 0 THEN <<>>
        ELSE IF UnplayedTest(self.games[i])
               THEN Append(unplayed[i - 1], GameView(self.games[i]))
               ELSE unplayed[i - 1]
  IN  unplayed[Len(self.games)]

\* the test that also accepts the cutoff itself
RecentTest_Inclusive(last_played, cutoff) == last_played >= cutoff

RecentTest(last_played, cutoff) == last_played > cutoff

\* sorted(recent_games, key=lambda x: x["last_played"], reverse=True)
RecentBefore(a, b) == StrLess(b.last_played, a.last_played)

\* the query that orders the games by the raw timestamp, newest first
get_recently_played_games_ByTimestamp(self, days, clock) ==
  IF cutoff_raises(clock, days) THEN cutoff_error(clock, days) ELSE
  IF unreadable(self.games) THEN AttributeError ELSE
  LET cutoff == cutoff_timestamp(clock, days)
      Newer(a, b) ==
        Get(a, "rtime_last_played", 0) > Get(b, "rtime_last_played", 0)
      Recent(game) == Get(game, "rtime_last_played", 0) > cutoff
      picked == SelectSeq(self.games, Recent)
      recent == sorted(picked,
                       [i, j \in 1..Len(picked) |-> Newer(picked[i], picked[j])])
  IN  [k \in 1..Len(recent) |-> GameView(recent[k])]

get_recently_played_games(self, days, clock) ==
  IF cutoff_raises(clock, days) THEN cutoff_error(clock, days) ELSE
  IF unreadable(self.games) THEN AttributeError ELSE
  LET cutoff == cutoff_timestamp(clock, days)
      recent_games[i \in 0..Len(self.games)] ==
        IF i = 0 THEN <<>>
        ELSE IF RecentTest(Get(self.games[i], "rtime_last_played", 0), cutoff)
               THEN Append(recent_games[i - 1], GameView(self.games[i]))
               ELSE recent_games[i - 1]
      found == recent_games[Len(self.games)]
  IN  sorted(found, [i, j \in 1..Len(found) |-> RecentBefore(found[i], found[j])])

\* the test without the two-hour threshold
NeglectedTest_AnyPlaytime(playtime, last_played, cutoff) ==
  last_played > 0 /\ last_played < cutoff

NeglectedTest(playtime, last_played, cutoff) ==
  playtime >= 120 /\ last_played > 0 /\ last_played < cutoff

\* sorted(neglected_games, key=lambda x: x["playtime_hours"], reverse=True)
NeglectedBefore(a, b) == a.playtime_hours > b.playtime_hours

NeglectedView(game, clock) ==
  [name              |-> Get(game, "name", STR_UnknownGame),
   appid             |-> Get(game, "appid", 0),
   playtime_hours    |-> _minutes_to_hours(Get(game, "playtime_forever", 0)),
   last_played       |-> _format_timestamp(Get(game, "rtime_last_played", 0)),
   days_since_played |-> days_since(clock, Get(game, "rtime_last_played", 0))]

get_neglected_games(self, days, clock) ==
  IF cutoff_raises(clock, days) THEN cutoff_error(clock, days) ELSE
  IF unreadable(self.games) THEN AttributeError ELSE
  LET cutoff == cutoff_timestamp(clock, days)
      neglected_games[i \in 0..Len(self.games)] ==
        IF i = 0 THEN <<>>
        ELSE IF NeglectedTest(Get(self.games[i], "playtime_forever", 0),
                              Get(self.games[i], "rtime_last_played", 0), cutoff)
               THEN Append(neglected_games[i - 1], NeglectedView(self.games[i], clock))
               ELSE neglected_games[i - 1]
      found == neglected_games[Len(self.games)]
  IN  sorted(found, [i, j \in 1..Len(found) |-> NeglectedBefore(found[i], found[j])])

\* max(games, key=lambda x: x.get("playtime_forever", 0)): the scan keeps the
\* element seen so far and replaces it only by a strictly larger key
\* the scan that also replaces the element by an equal key
MaxByPlaytime_LastOfEqual(games) ==
  LET best[i \in 1..Len(games)] ==
        IF i = 1 THEN games[1]
        ELSE IF Get(games[i], "playtime_forever", 0)
                  >= Get(best[i - 1], "playtime_forever", 0)
               THEN games[i]
               ELSE best[i - 1]
  IN  best[Len(games)]

MaxByPlaytime(games) ==
  LET best[i \in 1..Len(games)] ==
        IF i = 1 THEN games[1]
        ELSE IF Get(games[i], "playtime_forever", 0)
                  > Get(best[i - 1], "playtime_forever", 0)
               THEN games[i]
               ELSE best[i - 1]
  IN  best[Len(games)]

CountUnplayed(games) ==
  Cardinality({i \in 1..Len(games) : Get(games[i], "playtime_forever", 0) < 60})

\* the count taken from the number of records instead of the declared count
played_count_of_Records(self) == Len(self.games) - CountUnplayed(self.games)

played_count_of(self) == self.game_count - CountUnplayed(self.games)

\* total_playtime / played_count if played_count > 0 else 0, then round(_, 1)
average_playtime_of(total_playtime, played_count) ==
  IF played_count > 0 THEN round1(total_playtime, played_count) ELSE 0

EmptySummary ==
  [total_games      |-> 0,
   total_playtime   |-> 0,
   most_played_game |-> None,
   unplayed_count   |-> 0,
   played_count     |-> 0,
   average_playtime |-> 0]

\* the summary of a library that has games
NonEmptySummary(self) ==
  LET most_played    == MaxByPlaytime(self.games)
      unplayed_count == CountUnplayed(self.games)
      played_count   == played_count_of(self)
      total_playtime == get_total_playtime(self)
  IN  [total_games      |-> self.game_count,
       total_playtime   |-> total_playtime,
       most_played_game |->
         [name           |-> Get(most_played, "name", STR_UnknownGame),
          playtime_hours |->
            _minutes_to_hours(Get(most_played, "playtime_forever", 0))],
       unplayed_count   |-> unplayed_count,
       played_count     |-> played_count,
       average_playtime |-> average_playtime_of(total_playtime, played_count)]

\* the empty-library answer that reports the declared count
get_library_summary_DeclaredWhenEmpty(self) ==
  IF self.games = <<>>
    THEN [EmptySummary EXCEPT !.total_games = self.game_count]
    ELSE IF unreadable(self.games) THEN AttributeError
    ELSE NonEmptySummary(self)

get_library_summary(self) ==
  IF self.games = <<>> THEN EmptySummary
  ELSE IF unreadable(self.games) THEN AttributeError
  ELSE NonEmptySummary(self)

\* ------------------------------------------------------------------------
\* SteamAPIHandler: what the remote service can answer
\* ------------------------------------------------------------------------

\* game entries of the GetOwnedGames answer; any field can be missing
GameCatalog ==
  { [name |-> <<65>>, appid |-> 10, playtime_forever |-> 120,
     rtime_last_played |-> 0],
    [name |-> <<66>>, appid |-> 20, playtime_forever |-> 600,
     rtime_last_played |-> 1712707200],
    [name |-> <<67>>, appid |-> 30, playtime_forever |-> 30,
     rtime_last_played |-> 0],
    [img_icon_url |-> <<>>],
    [name |-> <<65, 66>>, appid |-> 50, playtime_forever |-> 120,
     rtime_last_played |-> 1711929600],
    [name |-> <<98>>, appid |-> 60, playtime_forever |-> 600,
     rtime_last_played |-> 1579046400],
    [name |-> <<65, 98>>, appid |-> 70, playtime_forever |-> 60,
     rtime_last_played |-> 1709251200],
    [appid |-> 80, playtime_forever |-> 100,
     rtime_last_played |-> 1712750400] }

\* two longer libraries: one with playtimes 0, 600 and 30 minutes, one whose
\* last-played dates fall in three different months and two different years
ScenarioLists ==
  { << [name |-> <<65>>, appid |-> 10, playtime_forever |-> 0,
        rtime_last_played |-> 0],
       [name |-> <<66>>, appid |-> 20, playtime_forever |-> 600,
        rtime_last_played |-> 1712707200],
       [name |-> <<67>>, appid |-> 30, playtime_forever |-> 30,
        rtime_last_played |-> 0] >>,
    << [name |-> <<66>>, appid |-> 20, playtime_forever |-> 600,
        rtime_last_played |-> 1712707200],
       [name |-> <<65, 66>>, appid |-> 50, playtime_forever |-> 120,
        rtime_last_played |-> 1711929600],
       [name |-> <<65, 98>>, appid |-> 70, playtime_forever |-> 60,
        rtime_last_played |-> 1709251200],
       [appid |-> 80, playtime_forever |-> 100,
        rtime_last_played |-> 1712750400],
       [name |-> <<98>>, appid |-> 60, playtime_forever |-> 600,
        rtime_last_played |-> 1579046400] >> }

GameLists == UNION {[1..n -> GameCatalog] : n \in 0..MaxGames} \cup ScenarioLists

\* data["response"] of GetOwnedGames: "games" with or without "game_count"
OwnedGamesResponses ==
  {[games |-> g] : g \in GameLists}
    \cup {[games |-> g, game_count |-> Len(g)] : g \in GameLists}
    \cup {[games |-> g, game_count |-> Len(g) + 1] : g \in GameLists}

\* SteamAPIHandler.get_owned_games on an answer that has "response" and
\* "games"
get_owned_games(response) ==
  [game_count |-> Get(response, "game_count", 0),
   games      |-> response.games]

SteamId == "76561198000000001"

\* validate_steam_id returns (steam_id, is_vanity)
Validated == [steam_id |-> SteamId, is_vanity |-> FALSE]

PlayerInfo == [personaname |-> "player"]

\* the answers to the three requests of one load; the last one is an answer
\* whose "games" holds an entry that is not a dict
SteamReplies ==
  {[validate |-> Validated, owned |-> get_owned_games(r), player |-> PlayerInfo] :
      r \in OwnedGamesResponses}
    \cup {[validate |-> Raised("Invalid Steam ID or vanity URL"),
           owned |-> None, player |-> None],
          [validate |-> Validated,
           owned |-> Raised("Failed to get game data. Profile might be private."),
           player |-> None],
          [validate |-> Validated, owned |-> get_owned_games([games |-> <<>>]),
           player |-> Raised("Player not found or profile is private")],
          [validate |-> Validated,
           owned |-> get_owned_games([games |-> <<None>>, game_count |-> 1]),
           player |-> PlayerInfo]}

\* the readings of datetime.now(): 2024-05-01 00:00:00 and, with a sub-second
\* part, 2024-05-02 06:00:00
ClockReadings ==
  {[sec |-> 1714521600, frac |-> FALSE], [sec |-> 1714629600, frac |-> TRUE]}

\* ------------------------------------------------------------------------
\* SteamStatsAgent
\* ------------------------------------------------------------------------

\* the agent's load-time fields
Agent == [library_data  |-> library_data,
          game_analyzer |-> game_analyzer,
          analysis_data |-> analysis_data]

NoDataLoaded == [error |-> "No game data loaded"]

\* load_user_data, the three requests: the values of steam_id, game_data and
\* player_info, or the exception of the first request that raises
fetch(replies) ==
  IF IsRaised(replies.validate) THEN replies.validate
  ELSE IF IsRaised(replies.owned) THEN replies.owned
  ELSE IF IsRaised(replies.player) THEN replies.player
  ELSE [steam_id    |-> replies.validate.steam_id,
        game_data   |-> replies.owned,
        player_info |-> replies.player]

\* self.library_data = {...}
LibraryData(fetched) ==
  [steam_id    |-> fetched.steam_id,
   player_info |-> fetched.player_info,
   game_data   |-> fetched.game_data]

\* self.analysis_data = {...}: the five load-time queries in the order of the
\* dict display; the exception of the first one that raises leaves the
\* assignment undone
analyze(analyzer, fetched, clock) ==
  LET summary         == get_library_summary(analyzer)
      recently_played == get_recently_played_games(analyzer, 30, clock)
  IN  IF IsRaised(summary) THEN summary
      ELSE IF cutoff_raises(clock, 30) THEN recently_played
      ELSE [steam_id        |-> fetched.steam_id,
            player_info     |-> fetched.player_info,
            summary         |-> summary,
            most_played     |-> get_most_played_games(analyzer, 10),
            unplayed        |-> get_unplayed_games(analyzer),
            recently_played |-> recently_played,
            neglected       |-> get_neglected_games(analyzer, 365, clock)]

\* the handler that lets the exception out of the call
LoadFailed_Reraised(exception) == exception

\* except Exception as e: return {"success": False, "error": str(e)}
LoadFailed(exception) == [success |-> FALSE, error |-> exception.raised]

LoadSucceeded(fetched) ==
  [success     |-> TRUE,
   player_name |-> Get(fetched.player_info, "personaname", "Unknown Player"),
   game_count  |-> Get(fetched.game_data, "game_count", 0)]

\* SteamStatsAgent.load_user_data: the fields after the call and the value
\* it returns.  An exception is caught and reported, and the assignments
\* that precede it stay.
load_user_data(self, replies, clock) ==
  LET fetched == fetch(replies)
  IN  IF IsRaised(fetched)
        THEN [library_data  |-> self.library_data,
              game_analyzer |-> self.game_analyzer,
              analysis_data |-> self.analysis_data,
              ret           |-> LoadFailed(fetched)]
        ELSE LET analyzer == GameDataAnalyzer(fetched.game_data)
                 analysis == analyze(analyzer, fetched, clock)
             IN  IF IsRaised(analysis)
                   THEN [library_data  |-> LibraryData(fetched),
                         game_analyzer |-> analyzer,
                         analysis_data |-> self.analysis_data,
                         ret           |-> LoadFailed(analysis)]
                   ELSE [library_data  |-> LibraryData(fetched),
                         game_analyzer |-> analyzer,
                         analysis_data |-> analysis,
                         ret           |-> LoadSucceeded(fetched)]

\* a tool argument as the caller passes it: an int, a value int() rejects
\* with ValueError, or float("inf"), which int() rejects with OverflowError
IntArg(k) == [int |-> k]

NotANumber == [str |-> "many"]

Infinity == [inf |-> TRUE]

\* int(x) raises an exception that "except (ValueError, TypeError)" lets
\* through
int_raises(x) == "inf" \in DOMAIN x

OverflowError == Raised("cannot convert float infinity to integer")

\* try: x = int(x); if x <= 0: x = default; except (ValueError, TypeError):
\* x = default
CoercePositive(x, default) ==
  IF "int" \in DOMAIN x
    THEN IF x.int <= 0 THEN default ELSE x.int
    ELSE default

tool_get_total_game_count(self) ==
  IF self.analysis_data = None
    THEN NoDataLoaded
    ELSE LET summary == self.analysis_data.summary
         IN  [total_games    |-> summary.total_games,
              played_games   |-> summary.played_count,
              unplayed_games |-> summary.unplayed_count]

tool_get_total_playtime(self) ==
  IF self.analysis_data = None
    THEN NoDataLoaded
    ELSE LET summary == self.analysis_data.summary
         IN  [total_hours            |-> summary.total_playtime,
              average_hours_per_game |-> summary.average_playtime]

\* the part of the get_most_played_games tool that runs on the analyzer the
\* tool has read from self.game_analyzer
most_played_of(analyzer, top_n_arg) ==
  IF int_raises(top_n_arg) THEN OverflowError
  ELSE LET top_n       == CoercePositive(top_n_arg, 5)
           most_played == get_most_played_games(analyzer, top_n)
       IN  IF unreadable(analyzer.games)
             THEN most_played
             ELSE [games |-> most_played, count |-> Len(most_played)]

tool_get_most_played_games(self, top_n_arg) ==
  IF self.game_analyzer = None
    THEN NoDataLoaded
    ELSE most_played_of(self.game_analyzer, top_n_arg)

tool_list_unplayed_games(self, limit_arg) ==
  IF self.analysis_data = None
    THEN NoDataLoaded
    ELSE IF int_raises(limit_arg) THEN OverflowError
    ELSE LET limit    == CoercePositive(limit_arg, 10)
             unplayed == self.analysis_data.unplayed
         IN  [games       |-> SliceTo(unplayed, limit),
              total_count |-> Len(unplayed),
              showing     |-> Min(limit, Len(unplayed))]

\* f"Game '{game_name}' not found in your library"
NotFoundMessage(game_name) ==
  <<71, 97, 109, 101, 32, 39>> \o game_name
    \o <<39, 32, 110, 111, 116, 32, 102, 111, 117, 110, 100, 32, 105, 110, 32,
         121, 111, 117, 114, 32, 108, 105, 98, 114, 97, 114, 121>>

\* find_game_stats, the first loop: the view of the first game whose name
\* equals game_name without regard to case, None when the loop ends without
\* returning; an entry that is not a dict raises when the loop reaches it
\* the first loop with the names compared as they are written
exact_scan_CaseSensitive(games, game_name) ==
  LET stops == {k \in 1..Len(games) :
                  \/ games[k] = None
                  \/ Get(games[k], "name", <<>>) = game_name}
      first == CHOOSE k \in stops : \A j \in stops : k <= j
  IN  IF stops = {} THEN None
      ELSE IF games[first] = None THEN AttributeError
      ELSE [name           |-> GameView(games[first]).name,
            appid          |-> GameView(games[first]).appid,
            playtime_hours |-> GameView(games[first]).playtime_hours,
            last_played    |-> GameView(games[first]).last_played,
            found          |-> TRUE]

exact_scan(games, game_name) ==
  LET stops == {k \in 1..Len(games) :
                  \/ games[k] = None
                  \/ lower(Get(games[k], "name", <<>>)) = lower(game_name)}
      first == CHOOSE k \in stops : \A j \in stops : k <= j
  IN  IF stops = {} THEN None
      ELSE IF games[first] = None THEN AttributeError
      ELSE [name           |-> GameView(games[first]).name,
            appid          |-> GameView(games[first]).appid,
            playtime_hours |-> GameView(games[first]).playtime_hours,
            last_played    |-> GameView(games[first]).last_played,
            found          |-> TRUE]

\* find_game_stats, the second loop: the views of the games whose name
\* contains game_name without regard to case
partial_scan(games, game_name) ==
  LET Matches(game) ==
        Contains(lower(game_name), lower(Get(game, "name", <<>>)))
      matched == SelectSeq(games, Matches)
      matches == [k \in 1..Len(matched) |-> GameView(matched[k])]
  IN  IF unreadable(games) THEN AttributeError
      ELSE IF matches # <<>>
             THEN [matches |-> matches, count |-> Len(matches), found |-> TRUE]
             ELSE [found |-> FALSE, error |-> NotFoundMessage(game_name)]

NoGameName == [error |-> "No game name provided"]

\* the tool that looks at its argument before it looks for a snapshot
tool_find_game_stats_NameFirst(self, game_name) ==
  IF game_name = <<>> THEN NoGameName
  ELSE IF self.game_analyzer = None \/ self.library_data = None
    THEN NoDataLoaded
    ELSE LET exact == exact_scan(self.library_data.game_data.games, game_name)
         IN  IF exact # None
               THEN exact
               ELSE partial_scan(self.library_data.game_data.games, game_name)

tool_find_game_stats(self, game_name) ==
  IF self.game_analyzer = None \/ self.library_data = None
    THEN NoDataLoaded
    ELSE IF game_name = <<>> THEN NoGameName
    ELSE LET exact == exact_scan(self.library_data.game_data.games, game_name)
         IN  IF exact # None
               THEN exact
               ELSE partial_scan(self.library_data.game_data.games, game_name)

tool_get_recently_played_games(self, days_arg, limit_arg, clock) ==
  IF self.game_analyzer = None
    THEN NoDataLoaded
    ELSE IF int_raises(days_arg) \/ int_raises(limit_arg) THEN OverflowError
    ELSE LET days         == CoercePositive(days_arg, 30)
             limit        == CoercePositive(limit_arg, 5)
             recent_games ==
               get_recently_played_games(self.game_analyzer, days, clock)
         IN  IF cutoff_raises(clock, days) \/ unreadable(self.game_analyzer.games)
               THEN recent_games
               ELSE [games       |-> SliceTo(recent_games, limit),
                     total_count |-> Len(recent_games),
                     showing     |-> Min(limit, Len(recent_games)),
                     days        |-> days]

tool_get_neglected_games(self, days_arg, limit_arg, clock) ==
  IF self.game_analyzer = None
    THEN NoDataLoaded
    ELSE IF int_raises(days_arg) \/ int_raises(limit_arg) THEN OverflowError
    ELSE LET days            == CoercePositive(days_arg, 365)
             limit           == CoercePositive(limit_arg, 5)
             neglected_games ==
               get_neglected_games(self.game_analyzer, days, clock)
         IN  IF cutoff_raises(clock, days) \/ unreadable(self.game_analyzer.games)
               THEN neglected_games
               ELSE [games       |-> SliceTo(neglected_games, limit),
                     total_count |-> Len(neglected_games),
                     showing     |-> Min(limit, Len(neglected_games)),
                     days        |-> days]

\* the tool returns the dict the load stored, not a copy of it
tool_get_library_summary(self) ==
  IF self.analysis_data = None
    THEN NoDataLoaded
    ELSE self.analysis_data.summary

\* the filter that lets zero-playtime games through
LeastPlayedTest_WithZero(game) == Get(game, "playtime_forever", 0) >= 0

LeastPlayedTest(game) == Get(game, "playtime_forever", 0) > 0

LeastPlayedBefore(a, b) ==
  Get(a, "playtime_forever", 0) < Get(b, "playtime_forever", 0)

tool_get_least_played_games(self, top_n_arg) ==
  IF self.game_analyzer = None \/ self.library_data = None
    THEN NoDataLoaded
    ELSE IF int_raises(top_n_arg) THEN OverflowError
    ELSE IF unreadable(self.library_data.game_data.games) THEN AttributeError
    ELSE LET top_n        == CoercePositive(top_n_arg, 5)
             played_games == SelectSeq(self.library_data.game_data.games,
                                       LeastPlayedTest)
             sorted_games ==
               sorted(played_games,
                      [i, j \in 1..Len(played_games) |->
                         LeastPlayedBefore(played_games[i], played_games[j])])
             top          == SliceTo(sorted_games, top_n)
         IN  [games |-> [k \in 1..Len(top) |-> GameView(top[k])],
              count |-> Len(top)]

\* ------------------------------------------------------------------------
\* The session: run.py constructs the agent, loads the library once, and
\* then the tools and the analyzer are queried
\* ------------------------------------------------------------------------

AnalyzerLimits == {-1, 0, 1, 2, 10}

AnalyzerDays == {30, 365, 20000}

ToolCounts ==
  {IntArg(-1), IntArg(0), IntArg(1), IntArg(2), NotANumber, Infinity}

ToolDays == {IntArg(0), IntArg(365), IntArg(1000000), NotANumber}

ToolLimits == {IntArg(0), IntArg(1)}

\* "", "a", "B" and "x"
GameNames == {<<>>, <<97>>, <<66>>, <<120>>}

Init ==
  /\ tz = "UTC"
  /\ handler = None
  /\ time_time = None
  /\ requests = <<>>
  /\ library_data = None
  /\ game_analyzer = None
  /\ analysis_data = None
  /\ main_pc = "load"
  /\ call = [op |-> "SteamStatsAgent"]
  /\ result = None
  /\ load_frame = None
  /\ query_frame = None

\* run.py: result = agent.load_user_data(steam_id); a failure ends the run
LoadUserData ==
  /\ main_pc = "load"
  /\ \E replies \in SteamReplies, t \in ClockReadings :
       LET out == load_user_data(Agent, replies, t)
       IN  /\ library_data' = out.library_data
           /\ game_analyzer' = out.game_analyzer
           /\ analysis_data' = out.analysis_data
           /\ result' = out.ret
           /\ call' = [op |-> "load_user_data", replies |-> replies,
                       clock |-> t]
           /\ main_pc' = IF out.ret.success THEN "session" ELSE "exit"
           /\ UNCHANGED <<tz, handler, time_time, requests,
                          load_frame, query_frame>>

\* no call is in progress: the agent was constructed, the load has returned,
\* or the loop is back at the prompt
AtPrompt == call.op \in {"SteamStatsAgent", "load_user_data", "prompt"}

\* the value of the last call has been shown; the loop asks for input again
Prompt ==
  /\ main_pc # "exit"
  /\ ~AtPrompt
  /\ call' = [op |-> "prompt"]
  /\ result' = None
  /\ UNCHANGED <<tz, handler, time_time, requests,
                 library_data, game_analyzer, analysis_data, main_pc,
                 load_frame, query_frame>>

\* a call from the prompt that returns value and leaves analyzer as the
\* object self.game_analyzer refers to
Answer(op, value, analyzer) ==
  /\ main_pc # "exit"
  /\ AtPrompt
  /\ call' = op
  /\ result' = value
  /\ game_analyzer' = analyzer
  /\ UNCHANGED <<tz, handler, time_time, requests,
                 library_data, analysis_data, main_pc, load_frame, query_frame>>

\* a query that assigns to no attribute and calls nothing that writes
Query(op, value) == Answer(op, value, game_analyzer)

CallGetTotalPlaytime ==
  /\ game_analyzer # None
  /\ Query([op |-> "get_total_playtime"], get_total_playtime(game_analyzer))

CallGetMostPlayedGames ==
  /\ game_analyzer # None
  /\ \E limit \in AnalyzerLimits :
       Answer([op |-> "get_most_played_games", limit |-> limit],
              get_most_played_games(game_analyzer, limit),
              after_get_most_played_games(game_analyzer))

CallGetUnplayedGames ==
  /\ game_analyzer # None
  /\ Query([op |-> "get_unplayed_games"], get_unplayed_games(game_analyzer))

CallGetRecentlyPlayedGames ==
  /\ game_analyzer # None
  /\ \E days \in AnalyzerDays, t \in ClockReadings :
       Query([op |-> "get_recently_played_games", days |-> days, clock |-> t],
             get_recently_played_games(game_analyzer, days, t))

CallGetNeglectedGames ==
  /\ game_analyzer # None
  /\ \E days \in AnalyzerDays, t \in ClockReadings :
       Query([op |-> "get_neglected_games", days |-> days, clock |-> t],
             get_neglected_games(game_analyzer, days, t))

CallGetLibrarySummary ==
  /\ game_analyzer # None
  /\ Query([op |-> "get_library_summary"], get_library_summary(game_analyzer))

ToolGetLeastPlayedGames ==
  /\ \E top_n \in ToolCounts :
       Query([op |-> "tool_get_least_played_games", top_n |-> top_n],
             tool_get_least_played_games(Agent, top_n))

ToolGetTotalGameCount ==
  /\ Query([op |-> "tool_get_total_game_count"],
           tool_get_total_game_count(Agent))

ToolGetTotalPlaytime ==
  /\ Query([op |-> "tool_get_total_playtime"],
           tool_get_total_playtime(Agent))

ToolGetMostPlayedGames ==
  /\ \E top_n \in ToolCounts :
       Answer([op |-> "tool_get_most_played_games", top_n |-> top_n],
              tool_get_most_played_games(Agent, top_n),
              IF game_analyzer = None \/ int_raises(top_n)
                THEN game_analyzer
                ELSE after_get_most_played_games(game_analyzer))

\* the list returned is new, its entries are the dicts of
\* self.analysis_data["unplayed"]: live tells that the value returned is
\* made of the agent's own objects
ToolListUnplayedGames ==
  /\ \E limit \in ToolCounts :
       Query([op |-> "tool_list_unplayed_games", limit |-> limit,
              live |-> TRUE],
             tool_list_unplayed_games(Agent, limit))

ToolFindGameStats ==
  /\ \E game_name \in GameNames :
       Query([op |-> "tool_find_game_stats", game_name |-> game_name],
             tool_find_game_stats(Agent, game_name))

ToolGetRecentlyPlayedGames ==
  /\ \E days \in ToolDays, limit \in ToolLimits, t \in ClockReadings :
       Query([op |-> "tool_get_recently_played_games", days |-> days,
              limit |-> limit, clock |-> t],
             tool_get_recently_played_games(Agent, days, limit, t))

ToolGetNeglectedGames ==
  /\ \E days \in ToolDays, limit \in ToolLimits, t \in ClockReadings :
       Query([op |-> "tool_get_neglected_games", days |-> days,
              limit |-> limit, clock |-> t],
             tool_get_neglected_games(Agent, days, limit, t))

\* the dict returned is self.analysis_data["summary"] itself
ToolGetLibrarySummary ==
  /\ Query([op |-> "tool_get_library_summary", live |-> TRUE],
           tool_get_library_summary(Agent))

\* run.py, report mode: a row of the table and of the CSV file
report_row(game) == <<game.name, game.playtime_hours, game.last_played>>

\* run.py, report mode (args.report): what main prints after a successful
\* load, and the rows export_to_csv writes when args.export is set; or the
\* exception that an expression of the block raises, which takes main to
\* its "except Exception" clause
generate_report(self, export) ==
  LET summary     == tool_get_library_summary(self)
      most_played == tool_get_most_played_games(self, IntArg(10))
  IN  IF summary.most_played_game = None
        THEN Raised("'NoneType' object is not subscriptable")
        ELSE [total_games      |-> summary.total_games,
              total_playtime   |-> summary.total_playtime,
              most_played_game |-> <<summary.most_played_game.name,
                                     summary.most_played_game.playtime_hours>>,
              table_data       |-> [k \in 1..Len(most_played.games) |->
                                      report_row(most_played.games[k])],
              csv              |->
                IF export
                  THEN LET data == most_played.games
                                     \o tool_list_unplayed_games(self,
                                                                 IntArg(10)).games
                       IN  [k \in 1..Len(data) |-> report_row(data[k])]
                  ELSE None]

\* run.py started with --report: the report follows the successful load and
\* main returns
GenerateReport ==
  /\ main_pc = "session"
  /\ call.op = "load_user_data"
  /\ \E export \in BOOLEAN :
       /\ call' = [op |-> "report", export |-> export]
       /\ result' = generate_report(Agent, export)
  /\ main_pc' = "exit"
  /\ UNCHANGED <<tz, handler, time_time, requests, library_data,
                 game_analyzer, analysis_data, load_frame, query_frame>>

Next ==
  \/ LoadUserData
  \/ GenerateReport
  \/ Prompt
  \/ CallGetTotalPlaytime
  \/ CallGetMostPlayedGames
  \/ CallGetUnplayedGames
  \/ CallGetRecentlyPlayedGames
  \/ CallGetNeglectedGames
  \/ CallGetLibrarySummary
  \/ ToolGetTotalGameCount
  \/ ToolGetTotalPlaytime
  \/ ToolGetMostPlayedGames
  \/ ToolGetLeastPlayedGames
  \/ ToolListUnplayedGames
  \/ ToolFindGameStats
  \/ ToolGetRecentlyPlayedGames
  \/ ToolGetNeglectedGames
  \/ ToolGetLibrarySummary

Spec == Init /\ [][Next]_vars

\* ------------------------------------------------------------------------
\* The agent as an object: load_user_data is called again on an agent that
\* holds a snapshot, its statements interleave with the tool calls of
\* another caller, and a caller writes into a value a tool returned to it
\* ------------------------------------------------------------------------

\* the answers of the remote service in this setting: a library with one
\* game, one with two games, one with an entry that is not a dict, and a
\* request that fails
AgentReplies ==
  {[validate |-> Validated,
    owned    |-> get_owned_games(
                   [games |-> << [name |-> <<65, 66>>, appid |-> 50,
                                  playtime_forever |-> 120,
                                  rtime_last_played |-> 1711929600] >>,
                    game_count |-> 1]),
    player   |-> PlayerInfo],
   [validate |-> Validated,
    owned    |-> get_owned_games(
                   [games |-> << [name |-> <<65>>, appid |-> 10,
                                  playtime_forever |-> 120,
                                  rtime_last_played |-> 0],
                                 [name |-> <<67>>, appid |-> 30,
                                  playtime_forever |-> 30,
                                  rtime_last_played |-> 0] >>,
                    game_count |-> 2]),
    player   |-> PlayerInfo],
   [validate |-> Validated,
    owned    |-> get_owned_games([games |-> <<None>>, game_count |-> 1]),
    player   |-> PlayerInfo],
   [validate |-> Validated,
    owned    |-> Raised("Failed to get game data. Profile might be private."),
    player   |-> None]}

AgentInit ==
  /\ tz = "UTC"
  /\ handler = None
  /\ time_time = None
  /\ requests = <<>>
  /\ library_data = None
  /\ game_analyzer = None
  /\ analysis_data = None
  /\ main_pc = "session"
  /\ call = [op |-> "SteamStatsAgent"]
  /\ result = None
  /\ load_frame = None
  /\ query_frame = None

\* the position of the load_user_data call in progress
LoadAt(pc) == IF load_frame = None THEN FALSE ELSE load_frame.pc = pc

\* load_user_data is called: the three requests.  An exception is caught and
\* the call returns before any field is assigned.
BeginLoad ==
  /\ load_frame = None \/ LoadAt("returned")
  /\ \E replies \in AgentReplies :
       load_frame' =
         IF IsRaised(fetch(replies))
           THEN [pc |-> "returned", replies |-> replies,
                 ret |-> LoadFailed(fetch(replies))]
           ELSE [pc |-> "library_data", replies |-> replies]
  /\ UNCHANGED <<tz, handler, time_time, requests,
                 library_data, game_analyzer, analysis_data, main_pc, call,
                 result, query_frame>>

\* self.library_data = {...}
StoreLibraryData ==
  /\ LoadAt("library_data")
  /\ library_data' = LibraryData(fetch(load_frame.replies))
  /\ load_frame' = [load_frame EXCEPT !.pc = "game_analyzer"]
  /\ UNCHANGED <<tz, handler, time_time, requests,
                 game_analyzer, analysis_data, main_pc, call, result,
                 query_frame>>

\* self.game_analyzer = GameDataAnalyzer(game_data)
StoreGameAnalyzer ==
  /\ LoadAt("game_analyzer")
  /\ game_analyzer' = GameDataAnalyzer(fetch(load_frame.replies).game_data)
  /\ load_frame' = [load_frame EXCEPT !.pc = "analysis_data"]
  /\ UNCHANGED <<tz, handler, time_time, requests,
                 library_data, analysis_data, main_pc, call, result,
                 query_frame>>

\* self.analysis_data = {...} and the return; an exception of the analysis
\* is caught, the field keeps its value and the call returns the error.  The
\* dict assigned is a new object: a summary or a list that a caller got
\* from the former one is no longer the agent's.
StoreAnalysisData ==
  /\ LoadAt("analysis_data")
  /\ \E t \in ClockReadings :
       LET fetched  == fetch(load_frame.replies)
           analysis == analyze(game_analyzer, fetched, t)
       IN  /\ analysis_data' =
                IF IsRaised(analysis) THEN analysis_data ELSE analysis
           /\ load_frame' =
                [pc |-> "returned", replies |-> load_frame.replies,
                 clock |-> t,
                 ret |-> IF IsRaised(analysis) THEN LoadFailed(analysis)
                                               ELSE LoadSucceeded(fetched)]
           /\ call' = IF "live" \in DOMAIN call /\ ~IsRaised(analysis)
                        THEN [call EXCEPT !.live = FALSE]
                        ELSE call
  /\ UNCHANGED <<tz, handler, time_time, requests,
                 library_data, game_analyzer, main_pc, result, query_frame>>

\* find_game_stats up to the end of its first loop
BeginFindGameStats ==
  /\ AtPrompt
  /\ game_analyzer # None
  /\ library_data # None
  /\ \E game_name \in GameNames \ {<<>>} :
       /\ exact_scan(library_data.game_data.games, game_name) = None
       /\ query_frame' =
            [op |-> "find_game_stats", game_name |-> game_name,
             exact_scanned |-> library_data.game_data.games]
  /\ call' = [op |-> "running"]
  /\ result' = None
  /\ UNCHANGED <<tz, handler, time_time, requests,
                 library_data, game_analyzer, analysis_data, main_pc,
                 load_frame>>

\* the frame of the tool call in progress
Running(op) == IF query_frame = None THEN FALSE ELSE query_frame.op = op

\* find_game_stats from its second loop on: self.library_data is read again
EndFindGameStats ==
  /\ Running("find_game_stats")
  /\ result' = partial_scan(library_data.game_data.games, query_frame.game_name)
  /\ call' = [op             |-> "tool_find_game_stats",
              game_name      |-> query_frame.game_name,
              exact_scanned  |-> query_frame.exact_scanned,
              partial_scanned |-> library_data.game_data.games]
  /\ query_frame' = None
  /\ UNCHANGED <<tz, handler, time_time, requests,
                 library_data, game_analyzer, analysis_data, main_pc,
                 load_frame>>

\* get_most_played_games up to the call of the analyzer's method: the method
\* is bound to the analyzer that self.game_analyzer holds at this moment
BeginGetMostPlayedGames ==
  /\ AtPrompt
  /\ game_analyzer # None
  /\ \E top_n \in ToolLimits :
       query_frame' = [op |-> "get_most_played_games", top_n |-> top_n,
                       analyzer |-> game_analyzer]
  /\ call' = [op |-> "running"]
  /\ result' = None
  /\ UNCHANGED <<tz, handler, time_time, requests,
                 library_data, game_analyzer, analysis_data, main_pc,
                 load_frame>>

\* the analyzer's method runs on the analyzer it is bound to
EndGetMostPlayedGames ==
  /\ Running("get_most_played_games")
  /\ result' = most_played_of(query_frame.analyzer, query_frame.top_n)
  /\ call' = [op       |-> "tool_get_most_played_games",
              top_n    |-> query_frame.top_n,
              analyzer |-> query_frame.analyzer]
  /\ query_frame' = None
  /\ UNCHANGED <<tz, handler, time_time, requests,
                 library_data, game_analyzer, analysis_data, main_pc,
                 load_frame>>

\* the caller assigns to a key of the value the last call returned:
\* view["total_games"] = -1 on a summary or a game count,
\* view["games"][0]["name"] = "" on a list of unplayed games.  The assignment
\* reaches the agent's fields when the value is the agent's own object.
MutateView ==
  /\ call.op \in {"tool_get_library_summary", "tool_list_unplayed_games",
                  "tool_get_total_game_count"}
  /\ "error" \notin DOMAIN result
  /\ ~IsRaised(result)
  /\ \/ /\ call.op = "tool_get_library_summary"
        /\ result' = [result EXCEPT !.total_games = -1]
        /\ analysis_data' =
             IF Get(call, "live", FALSE)
               THEN [analysis_data EXCEPT !.summary = result']
               ELSE analysis_data
     \/ /\ call.op = "tool_list_unplayed_games"
        /\ result.games # <<>>
        /\ result' = [result EXCEPT !.games[1].name = <<>>]
        /\ analysis_data' =
             IF Get(call, "live", FALSE)
               THEN [analysis_data EXCEPT !.unplayed[1].name = <<>>]
               ELSE analysis_data
     \/ /\ call.op = "tool_get_total_game_count"
        /\ result' = [result EXCEPT !.total_games = -1]
        /\ analysis_data' = analysis_data
  /\ call' = [op |-> "mutate_view", view |-> call.op]
  /\ UNCHANGED <<tz, handler, time_time, requests,
                 library_data, game_analyzer, main_pc, load_frame, query_frame>>

AgentNext ==
  \/ BeginLoad
  \/ StoreLibraryData
  \/ StoreGameAnalyzer
  \/ StoreAnalysisData
  \/ Prompt
  \/ ToolGetTotalGameCount
  \/ ToolGetTotalPlaytime
  \/ ToolGetLibrarySummary
  \/ ToolListUnplayedGames
  \/ ToolFindGameStats
  \/ BeginFindGameStats
  \/ EndFindGameStats
  \/ BeginGetMostPlayedGames
  \/ EndGetMostPlayedGames
  \/ MutateView

AgentSpec == AgentInit /\ [][AgentNext]_vars

\* ------------------------------------------------------------------------
\* The session in a zone that has summer time: the cutoff and the days since
\* a game was played are computed on naive local datetimes
\* ------------------------------------------------------------------------

\* games last played on 2024-03-31 at 00:00 UTC and at 01:10 UTC (Europe/
\* London goes from 01:00 GMT to 02:00 BST at 01:00 UTC of that day), on
\* 2024-10-27 at 00:10 UTC (it goes back at 01:00 UTC), and a game never
\* played
ZoneCatalog ==
  { [name |-> <<65>>, appid |-> 10, playtime_forever |-> 120,
     rtime_last_played |-> 1711843200],
    [name |-> <<66>>, appid |-> 20, playtime_forever |-> 600,
     rtime_last_played |-> 1711847400],
    [name |-> <<67>>, appid |-> 30, playtime_forever |-> 120,
     rtime_last_played |-> 1729987800],
    [name |-> <<68>>, appid |-> 40, playtime_forever |-> 120,
     rtime_last_played |-> 0] }

ZoneReplies ==
  {[validate |-> Validated,
    owned    |-> get_owned_games([games |-> g, game_count |-> Len(g)]),
    player   |-> PlayerInfo] :
      g \in UNION {[1..n -> ZoneCatalog] : n \in 1..2}}

\* the readings of datetime.now(): 2024-04-30 00:30:00 UTC, 2024-05-01
\* 00:00:00 UTC and, with a sub-second part, 2024-11-26 01:30:00 UTC
ZoneClockReadings ==
  {[sec |-> 1714437000, frac |-> FALSE], [sec |-> 1714521600, frac |-> FALSE],
   [sec |-> 1732584600, frac |-> TRUE]}

ZoneDays == {30, 31, 365}

\* the process starts in one of the zones
ZoneInit ==
  /\ tz \in Zones
  /\ handler = None
  /\ time_time = None
  /\ requests = <<>>
  /\ library_data = None
  /\ game_analyzer = None
  /\ analysis_data = None
  /\ main_pc = "load"
  /\ call = [op |-> "SteamStatsAgent"]
  /\ result = None
  /\ load_frame = None
  /\ query_frame = None

\* run.py: result = agent.load_user_data(steam_id)
ZoneLoadUserData ==
  /\ main_pc = "load"
  /\ \E replies \in ZoneReplies, t \in ZoneClockReadings :
       LET out == load_user_data(Agent, replies, t)
       IN  /\ library_data' = out.library_data
           /\ game_analyzer' = out.game_analyzer
           /\ analysis_data' = out.analysis_data
           /\ result' = out.ret
           /\ call' = [op |-> "load_user_data", replies |-> replies,
                       clock |-> t]
           /\ main_pc' = IF out.ret.success THEN "session" ELSE "exit"
           /\ UNCHANGED <<tz, handler, time_time, requests, load_frame,
                          query_frame>>

ZoneGetRecentlyPlayedGames ==
  /\ game_analyzer # None
  /\ \E days \in ZoneDays, t \in ZoneClockReadings :
       Query([op |-> "get_recently_played_games", days |-> days, clock |-> t],
             get_recently_played_games(game_analyzer, days, t))

ZoneGetNeglectedGames ==
  /\ game_analyzer # None
  /\ \E days \in ZoneDays, t \in ZoneClockReadings :
       Query([op |-> "get_neglected_games", days |-> days, clock |-> t],
             get_neglected_games(game_analyzer, days, t))

ZoneNext ==
  \/ ZoneLoadUserData
  \/ Prompt
  \/ ZoneGetRecentlyPlayedGames
  \/ ZoneGetNeglectedGames

ZoneSpec == ZoneInit /\ [][ZoneNext]_vars

\* ------------------------------------------------------------------------
\* SteamAPIHandler on its own: one handler, its methods called one after
\* another.  time_time is the reading time.time() gives, in tenths of a
\* second; requests is the list of the HTTP requests sent, each with the
\* reading at which requests.get was called.  Statements other than
\* time.sleep take no time; time passes between the calls.
\* ------------------------------------------------------------------------

\* the largest number of requests of a run
MaxRequests == 2

\* the reading after which the caller no longer waits between calls
MaxTime == 25

\* the most, in tenths of a second, that time.sleep returns late
MaxOversleep == 1

\* what _rate_limit depends on is the difference of two readings, so the
\* runs start in the first seconds after the epoch: at 0.3 s, where the first
\* request of a new handler has to wait, and at 1.2 s, where it has not
StartTimes == {3, 12}

\* __init__: self.last_request_time = 0; self.min_request_interval = 1.0
SteamAPIHandler == [last_request_time |-> 0, min_request_interval |-> 10]

\* the rate limiter that notes the reading taken before the sleep
_rate_limit_StampBeforeSleep(self, current_time, oversleep) ==
  LET time_since_last == current_time - self.last_request_time
      woken == IF time_since_last < self.min_request_interval
                 THEN current_time
                        + (self.min_request_interval - time_since_last)
                        + oversleep
                 ELSE current_time
  IN  [self      |-> [self EXCEPT !.last_request_time = current_time],
       time_time |-> woken]

\* _rate_limit, called at the reading current_time: the handler afterwards
\* and the reading when it returns; time.sleep(d) returns d or more later
_rate_limit(self, current_time, oversleep) ==
  LET time_since_last == current_time - self.last_request_time
      woken == IF time_since_last < self.min_request_interval
                 THEN current_time
                        + (self.min_request_interval - time_since_last)
                        + oversleep
                 ELSE current_time
  IN  [self      |-> [self EXCEPT !.last_request_time = woken],
       time_time |-> woken]

\* str.isdigit() for the characters of the ids used here
isdigit(str) == str # <<>> /\ \A i \in 1..Len(str) : str[i] \in 48..57

\* "76561198000000001", "7656119800000000" (16 digits),
\* "7656119800000000x" and "gabe"
SteamIdArguments ==
  {<<55, 54, 53, 54, 49, 49, 57, 56, 48, 48, 48, 48, 48, 48, 48, 48, 49>>,
   <<55, 54, 53, 54, 49, 49, 57, 56, 48, 48, 48, 48, 48, 48, 48, 48>>,
   <<55, 54, 53, 54, 49, 49, 57, 56, 48, 48, 48, 48, 48, 48, 48, 48, 120>>,
   <<103, 97, 98, 101>>}

\* response.status_code
StatusCodes == {200, 500}

HandlerInit ==
  /\ tz = "UTC"
  /\ handler = SteamAPIHandler
  /\ time_time \in StartTimes
  /\ requests = <<>>
  /\ library_data = None
  /\ game_analyzer = None
  /\ analysis_data = None
  /\ main_pc = "session"
  /\ call = [op |-> "SteamAPIHandler"]
  /\ result = None
  /\ load_frame = None
  /\ query_frame = None

\* time passes while no method of the handler runs
Tick ==
  /\ time_time < MaxTime
  /\ time_time' = time_time + 1
  /\ UNCHANGED <<tz, handler, requests, library_data, game_analyzer,
                 analysis_data, main_pc, call, result, load_frame,
                 query_frame>>

\* self._rate_limit(); response = requests.get(url, ...); then value, what
\* the method makes of the response
SendRequest(op, url, value) ==
  /\ Len(requests) < MaxRequests
  /\ \E oversleep \in 0..MaxOversleep :
       LET limited == _rate_limit(handler, time_time, oversleep)
       IN  /\ handler' = limited.self
           /\ time_time' = limited.time_time
           /\ requests' = Append(requests, [url |-> url,
                                            at  |-> limited.time_time])
  /\ call' = op @@ [at |-> time_time]
  /\ result' = value
  /\ UNCHANGED <<tz, library_data, game_analyzer, analysis_data, main_pc,
                 load_frame, query_frame>>

\* f"{message}: {response.status_code}" of the ValueError a method raises
\* when the status is not 200
StatusError(message, status_code) ==
  Raised([message |-> message, status_code |-> status_code])

ValidateSteamId ==
  \E steam_id_or_vanity \in SteamIdArguments :
    IF isdigit(steam_id_or_vanity) /\ Len(steam_id_or_vanity) = 17
      THEN /\ call' = [op |-> "validate_steam_id",
                       steam_id_or_vanity |-> steam_id_or_vanity,
                       at |-> time_time]
           /\ result' = <<steam_id_or_vanity, FALSE>>
           /\ UNCHANGED <<tz, handler, time_time, requests, library_data,
                          game_analyzer, analysis_data, main_pc, load_frame,
                          query_frame>>
      ELSE \E status_code \in StatusCodes, success \in {1, 42} :
             SendRequest([op |-> "validate_steam_id",
                          steam_id_or_vanity |-> steam_id_or_vanity],
                         "ISteamUser/ResolveVanityURL/v1/",
                         IF status_code # 200
                           THEN StatusError("Failed to validate Steam ID",
                                            status_code)
                         ELSE IF success = 1 THEN <<SteamId, TRUE>>
                         ELSE Raised("Invalid Steam ID or vanity URL"))

HandlerGetOwnedGames ==
  \E status_code \in StatusCodes :
    SendRequest([op |-> "get_owned_games"],
                "IPlayerService/GetOwnedGames/v1/",
                IF status_code # 200
                  THEN StatusError("Failed to get owned games", status_code)
                  ELSE get_owned_games([games |-> <<>>, game_count |-> 0]))

HandlerGetPlayerSummaries ==
  \E status_code \in StatusCodes :
    SendRequest([op |-> "get_player_summaries"],
                "ISteamUser/GetPlayerSummaries/v2/",
                IF status_code # 200
                  THEN StatusError("Failed to get player summary", status_code)
                  ELSE PlayerInfo)

HandlerGetGameDetails ==
  \E status_code \in StatusCodes :
    SendRequest([op |-> "get_game_details"], "appdetails",
                IF status_code # 200
                  THEN StatusError("Failed to get game details", status_code)
                  ELSE Raised("Game details not available"))

HandlerGetGameReviews ==
  \E status_code \in StatusCodes :
    SendRequest([op |-> "get_game_reviews"], "appreviews",
                IF status_code # 200
                  THEN StatusError("Failed to get game reviews", status_code)
                  ELSE Raised("Reviews not available"))

HandlerSearchGame ==
  \E status_code \in StatusCodes :
    SendRequest([op |-> "search_game"], "storesearch",
                IF status_code # 200
                  THEN StatusError("Failed to search for game", status_code)
                  ELSE None)

HandlerNext ==
  \/ Tick
  \/ ValidateSteamId
  \/ HandlerGetOwnedGames
  \/ HandlerGetPlayerSummaries
  \/ HandlerGetGameDetails
  \/ HandlerGetGameReviews
  \/ HandlerSearchGame

HandlerSpec == HandlerInit /\ [][HandlerNext]_vars

\* ------------------------------------------------------------------------
\* Properties
\* ------------------------------------------------------------------------

\* the fields of a record as the specification names them
PlaytimeMinutes(game) == IF "playtime_forever" \in DOMAIN game
                           THEN game.playtime_forever ELSE 0

LastPlayedEpoch(game) == IF "rtime_last_played" \in DOMAIN game
                           THEN game.rtime_last_played ELSE 0

\* the records of the loaded snapshot
Records == game_analyzer.games

\* the k-th smallest element of a set of indices
Kth(S, k) == CHOOSE i \in S : Cardinality({j \in S : j < i}) = k - 1

\* the ways to list m different indices out of S
Listings(S, m) ==
  {f \in [1..m -> S] : \A k, l \in 1..m : k # l => f[k] # f[l]}

RECURSIVE TotalMinutes(_)
TotalMinutes(games) ==
  IF games = <<>> THEN 0
  ELSE PlaytimeMinutes(Head(games)) + TotalMinutes(Tail(games))

\* C1: get_unplayed_games() returns one entry for exactly the records with
\* less than 60 minutes of playtime (a missing playtime counts as 0), in the
\* order of the records; no record with 60 minutes or more is returned and
\* none under 60 minutes is left out.
C1_UnplayedExactlyUnderSixty ==
  call.op = "get_unplayed_games" =>
    LET under == {i \in 1..Len(Records) : PlaytimeMinutes(Records[i]) < 60}
    IN  /\ Len(result) = Cardinality(under)
        /\ \A k \in 1..Len(result) : result[k] = GameView(Records[Kth(under, k)])

C1_Witness ==
  /\ call.op = "get_unplayed_games"
  /\ Len(Records) = 2
  /\ PlaytimeMinutes(Records[1]) = 60
  /\ PlaytimeMinutes(Records[2]) = 30
  /\ Len(result) = 1

\* C2: for limit >= 1, get_most_played_games(limit) returns min(limit, number
\* of records) entries, the most played records in non-increasing order of
\* playtime minutes, records of equal playtime in their input order.
C2_MostPlayedSortedStable ==
  (call.op = "get_most_played_games" /\ call.limit >= 1) =>
    LET n == Len(Records)
        m == IF call.limit <= n THEN call.limit ELSE n
        Precedes(i, j) ==
          \/ PlaytimeMinutes(Records[i]) > PlaytimeMinutes(Records[j])
          \/ (PlaytimeMinutes(Records[i]) = PlaytimeMinutes(Records[j]) /\ i < j)
    IN  /\ Len(result) = m
        /\ \E f \in Listings(1..n, m) :
             /\ \A k \in 1..m : result[k] = GameView(Records[f[k]])
             /\ \A k, l \in 1..m : k < l => Precedes(f[k], f[l])
             /\ \A i \in 1..n :
                  (\A k \in 1..m : f[k] # i) => \A k \in 1..m : Precedes(f[k], i)

C2_Witness ==
  /\ call.op = "get_most_played_games"
  /\ call.limit = 1
  /\ Len(Records) = 2
  /\ PlaytimeMinutes(Records[1]) = PlaytimeMinutes(Records[2])
  /\ GameView(Records[1]) # GameView(Records[2])
  /\ result = <<GameView(Records[1])>>

\* C3: the get_least_played_games tool never returns a record with playtime
\* 0: it returns the least played of the records with playtime > 0, at most
\* top_n of them (top_n after the replacement of a non-positive or
\* non-numeric value by 5), in non-decreasing order of playtime.  A record
\* with 0 < playtime < 60 that it returns is also in the unplayed view; a
\* record with playtime 0 is in the unplayed view only.
C3_LeastPlayedExcludesZero ==
  (call.op = "tool_get_least_played_games" /\ game_analyzer # None
     /\ ~IsRaised(result)) =>
    LET n      == Len(Records)
        played == {i \in 1..n : PlaytimeMinutes(Records[i]) > 0}
        top_n  == IF "int" \in DOMAIN call.top_n /\ call.top_n.int >= 1
                    THEN call.top_n.int ELSE 5
        m      == IF top_n <= Cardinality(played) THEN top_n ELSE Cardinality(played)
        unplayed_view == get_unplayed_games(game_analyzer)
    IN  /\ Len(result.games) = m
        /\ result.count = m
        /\ \E f \in Listings(played, m) :
             /\ \A k \in 1..m : result.games[k] = GameView(Records[f[k]])
             /\ \A k, l \in 1..m : k < l =>
                  PlaytimeMinutes(Records[f[k]]) <= PlaytimeMinutes(Records[f[l]])
             /\ \A i \in played :
                  (\A k \in 1..m : f[k] # i) =>
                     \A k \in 1..m :
                        PlaytimeMinutes(Records[f[k]]) <= PlaytimeMinutes(Records[i])
             /\ \A k \in 1..m :
                  PlaytimeMinutes(Records[f[k]]) < 60 =>
                     \E u \in 1..Len(unplayed_view) :
                        unplayed_view[u] = result.games[k]
        /\ \A i \in 1..n :
             PlaytimeMinutes(Records[i]) = 0 =>
               /\ \E u \in 1..Len(unplayed_view) :
                     unplayed_view[u] = GameView(Records[i])
               /\ \A k \in 1..m : result.games[k] # GameView(Records[i])

C3_Witness ==
  /\ call.op = "tool_get_least_played_games"
  /\ game_analyzer # None
  /\ call.top_n = IntArg(1)
  /\ Len(Records) = 3
  /\ PlaytimeMinutes(Records[1]) = 0
  /\ PlaytimeMinutes(Records[2]) = 600
  /\ PlaytimeMinutes(Records[3]) = 30
  /\ Len(result.games) = 1
  /\ result.games[1] = GameView(Records[3])

\* C4: get_total_playtime() is the sum of the playtime minutes of all records
\* (missing = 0) divided by 60 and rounded to one decimal: the tenth of an
\* hour nearest to it; 0 for an empty record set.
C4_TotalPlaytimeRounded ==
  call.op = "get_total_playtime" =>
    LET minutes == TotalMinutes(Records)
    IN  /\ 6 * result - minutes <= 3
        /\ minutes - 6 * result <= 3
        /\ (Records = <<>> => result = 0)

C4_Witness ==
  /\ call.op = "get_total_playtime"
  /\ Len(Records) = 2
  /\ TotalMinutes(Records) = 100
  /\ "playtime_forever" \notin DOMAIN Records[1]
  /\ result = 17

\* the nearest tenth of n / d: a is within half a tenth of it
NearestTenth(a, n, d) == 2 * d * a - 2 * n <= d /\ 2 * n - 2 * d * a <= d

\* C5: for a snapshot with at least one record, get_library_summary()
\* returns total_games = declared_count, unplayed_count = the number of
\* records under 60 minutes, played_count = declared_count - unplayed_count
\* and average_playtime = total playtime hours / played_count rounded to one
\* decimal when played_count > 0 and 0 otherwise.
C5_SummaryCounts ==
  (call.op = "get_library_summary" /\ Records # <<>>) =>
    LET declared == game_analyzer.game_count
        unplayed == Cardinality({i \in 1..Len(Records) :
                                   PlaytimeMinutes(Records[i]) < 60})
        played   == declared - unplayed
    IN  /\ result.total_games = declared
        /\ result.unplayed_count = unplayed
        /\ result.played_count = played
        /\ NearestTenth(result.total_playtime, TotalMinutes(Records), 6)
        /\ IF played > 0
             THEN NearestTenth(result.average_playtime, result.total_playtime, played)
             ELSE result.average_playtime = 0

\* playtimes 0, 600 and 30 with declared_count 3: total 10.5, unplayed 2,
\* played 1, average 10.5
C5_Witness ==
  /\ call.op = "get_library_summary"
  /\ Len(Records) = 3
  /\ PlaytimeMinutes(Records[1]) = 0
  /\ PlaytimeMinutes(Records[2]) = 600
  /\ PlaytimeMinutes(Records[3]) = 30
  /\ game_analyzer.game_count = 3
  /\ result.total_games = 3
  /\ result.total_playtime = 105
  /\ result.unplayed_count = 2
  /\ result.played_count = 1
  /\ result.average_playtime = 105

\* C6: get_library_summary() on an empty record list returns total_games 0,
\* total_playtime 0, most_played_game None, unplayed_count 0, played_count 0
\* and average_playtime 0, whatever declared_count is.
C6_EmptySummaryIsZero ==
  (call.op = "get_library_summary" /\ Records = <<>>) =>
    /\ DOMAIN result = {"total_games", "total_playtime", "most_played_game",
                        "unplayed_count", "played_count", "average_playtime"}
    /\ result.total_games = 0
    /\ result.total_playtime = 0
    /\ result.most_played_game = None
    /\ result.unplayed_count = 0
    /\ result.played_count = 0
    /\ result.average_playtime = 0

C6_Witness ==
  /\ call.op = "get_library_summary"
  /\ Records = <<>>
  /\ game_analyzer.game_count = 1
  /\ result.total_games = 0
  /\ result.most_played_game = None

\* C7: for a non-empty snapshot the most_played_game of the summary is a
\* record of maximal playtime, the first in record order when several share
\* the maximum.
C7_MostPlayedGameFirstMaximum ==
  (call.op = "get_library_summary" /\ Records # <<>>) =>
    \E i \in 1..Len(Records) :
      /\ \A j \in 1..Len(Records) :
           PlaytimeMinutes(Records[j]) <= PlaytimeMinutes(Records[i])
      /\ \A j \in 1..(i - 1) :
           PlaytimeMinutes(Records[j]) < PlaytimeMinutes(Records[i])
      /\ result.most_played_game.name = GameView(Records[i]).name
      /\ result.most_played_game.playtime_hours = GameView(Records[i]).playtime_hours

C7_Witness ==
  /\ call.op = "get_library_summary"
  /\ Len(Records) = 2
  /\ PlaytimeMinutes(Records[1]) = 600
  /\ PlaytimeMinutes(Records[2]) = 600
  /\ GameView(Records[1]).name # GameView(Records[2]).name
  /\ result.most_played_game.name = GameView(Records[1]).name

\* the cutoff of a time-window query in whole epoch seconds: now - days
WholeCutoff(clock, days) == clock.sec - days * 86400

\* C8: get_neglected_games(days) returns exactly the records with playtime
\* >= 120 minutes, a last-played epoch > 0 and a last-played epoch older
\* than the cutoff (now - days), in non-increasing order of playtime hours;
\* a record under 120 minutes is never returned, however old.
C8_NeglectedExactlyEligible ==
  call.op = "get_neglected_games" =>
    LET cutoff   == WholeCutoff(call.clock, call.days)
        eligible == {i \in 1..Len(Records) :
                       /\ PlaytimeMinutes(Records[i]) >= 120
                       /\ LastPlayedEpoch(Records[i]) > 0
                       /\ LastPlayedEpoch(Records[i]) < cutoff}
        m        == Cardinality(eligible)
    IN  /\ Len(result) = m
        /\ \E f \in Listings(eligible, m) :
             \A k \in 1..m :
               /\ result[k].name = GameView(Records[f[k]]).name
               /\ result[k].appid = GameView(Records[f[k]]).appid
               /\ result[k].playtime_hours = GameView(Records[f[k]]).playtime_hours
               /\ result[k].last_played = GameView(Records[f[k]]).last_played
        /\ \A k, l \in 1..m :
             k < l => result[k].playtime_hours >= result[l].playtime_hours

\* a 60-minute game last played before the cutoff is left out; the games
\* with 120 and 600 minutes that are older than the cutoff are returned, the
\* one with 600 minutes first
C8_Witness ==
  /\ call.op = "get_neglected_games"
  /\ call.days = 30
  /\ Len(Records) = 5
  /\ PlaytimeMinutes(Records[3]) = 60
  /\ LastPlayedEpoch(Records[3]) > 0
  /\ LastPlayedEpoch(Records[3]) < WholeCutoff(call.clock, call.days)
  /\ Len(result) = 2
  /\ result[1].playtime_hours = 100
  /\ result[2].playtime_hours = 20

\* C9: get_recently_played_games(days) returns exactly the records whose
\* last-played epoch is strictly greater than the cutoff (now - days); a
\* record whose last-played epoch equals the cutoff is not returned.
C9_RecentStrictlyAfterCutoff ==
  call.op = "get_recently_played_games" =>
    LET cutoff == WholeCutoff(call.clock, call.days)
        recent == {i \in 1..Len(Records) : LastPlayedEpoch(Records[i]) > cutoff}
        m      == Cardinality(recent)
    IN  /\ Len(result) = m
        /\ \E f \in Listings(recent, m) :
             \A k \in 1..m : result[k] = GameView(Records[f[k]])

C9_Witness ==
  /\ call.op = "get_recently_played_games"
  /\ Len(Records) = 2
  /\ LastPlayedEpoch(Records[1]) = WholeCutoff(call.clock, call.days)
  /\ LastPlayedEpoch(Records[2]) > WholeCutoff(call.clock, call.days)
  /\ result = <<GameView(Records[2])>>

\* C10: the entries of get_recently_played_games(days) are in descending
\* order of the rendered last-played string (month abbreviation, day, year)
\* compared lexicographically, not of the raw timestamp; entries whose
\* rendered strings are equal keep their input order.
C10_RecentOrderedByRenderedDate ==
  call.op = "get_recently_played_games" =>
    LET cutoff == WholeCutoff(call.clock, call.days)
        recent == {i \in 1..Len(Records) : LastPlayedEpoch(Records[i]) > cutoff}
        m      == Cardinality(recent)
    IN  \E f \in Listings(recent, m) :
          /\ Len(result) = m
          /\ \A k \in 1..m : result[k] = GameView(Records[f[k]])
          /\ \A k, l \in 1..m :
               k < l =>
                 \/ StrLess(result[l].last_played, result[k].last_played)
                 \/ (result[l].last_played = result[k].last_played /\ f[k] < f[l])

\* "Mar 01, 2024" is returned before "Apr 10, 2024" although it is the older
\* timestamp, and the two games of Apr 10 keep their input order although
\* the second was played later
C10_Witness ==
  /\ call.op = "get_recently_played_games"
  /\ call.days = 365
  /\ Len(Records) = 5
  /\ Len(result) = 4
  /\ result[1] = GameView(Records[3])
  /\ result[2] = GameView(Records[1])
  /\ result[3] = GameView(Records[4])
  /\ LastPlayedEpoch(Records[3]) < LastPlayedEpoch(Records[1])
  /\ LastPlayedEpoch(Records[1]) < LastPlayedEpoch(Records[4])
  /\ result[2].last_played = result[3].last_played

\* the analytics query tools of the agent
AnalyticsTools ==
  {"tool_get_total_game_count", "tool_get_total_playtime",
   "tool_get_most_played_games", "tool_get_least_played_games",
   "tool_list_unplayed_games", "tool_find_game_stats",
   "tool_get_recently_played_games", "tool_get_neglected_games",
   "tool_get_library_summary"}

\* C11: an analytics query tool of the agent that is called before any
\* snapshot has been loaded returns {"error": "No game data loaded"}, whatever
\* its arguments, and does not raise.
C11_NoDataBeforeLoad ==
  (/\ call.op \in AnalyticsTools
   /\ library_data = None
   /\ game_analyzer = None
   /\ analysis_data = None) =>
    result = [error |-> "No game data loaded"]

\* find_game_stats without a name and without a snapshot reports the missing
\* snapshot
C11_Witness ==
  /\ call.op = "tool_find_game_stats"
  /\ call.game_name = <<>>
  /\ library_data = None
  /\ game_analyzer = None
  /\ analysis_data = None
  /\ result = [error |-> "No game data loaded"]

\* no load_user_data call is in progress
LoadIdle == load_frame = None \/ LoadAt("returned")

\* C12: after any sequence of load_user_data calls, whether they succeed or
\* fail at the validation, the fetch or the load-time analysis, the fields
\* library_data, game_analyzer and analysis_data are all absent, or all
\* present and derived from the same payload.
C12_SnapshotAllOrNothing ==
  LoadIdle =>
    \/ /\ library_data = None
       /\ game_analyzer = None
       /\ analysis_data = None
    \/ /\ library_data # None
       /\ game_analyzer # None
       /\ analysis_data # None
       /\ game_analyzer = GameDataAnalyzer(library_data.game_data)
       /\ \E t \in ClockReadings :
            analysis_data = analyze(game_analyzer, library_data, t)

\* C13: no query returns a live reference into the agent's state: when a
\* caller writes into a value a query returned, every later query, the
\* tools that answer from the load-time copy included, returns what it would
\* have returned without the write.
C13_ViewsAreNotLive ==
  [][(call.op # "mutate_view" /\ call'.op = "mutate_view") =>
       /\ tool_get_library_summary(Agent)' = tool_get_library_summary(Agent)
       /\ tool_get_total_game_count(Agent)' = tool_get_total_game_count(Agent)
       /\ tool_get_total_playtime(Agent)' = tool_get_total_playtime(Agent)
       /\ \A limit \in ToolLimits :
            tool_list_unplayed_games(Agent, limit)'
              = tool_list_unplayed_games(Agent, limit)
       /\ library_data' = library_data
       /\ game_analyzer' = game_analyzer]_vars

\* the argument a tool is to work with: the value given when it is a
\* positive integer, the default otherwise
Normalised(arg, default) ==
  IF "int" \in DOMAIN arg /\ arg.int >= 1 THEN arg ELSE IntArg(default)

\* C14: every agent tool that takes top_n, limit or days replaces a value
\* that is <= 0 or cannot be converted to an integer by its positive default
\* (5 for top_n and limit, 10 for the limit of list_unplayed_games, 30 and
\* 365 for days) and returns a result instead of raising, for every input
\* value.
C14_ArgumentsCoerced ==
  /\ (call.op = "tool_get_most_played_games" /\ game_analyzer # None) =>
       /\ ~IsRaised(result)
       /\ result = tool_get_most_played_games(Agent, Normalised(call.top_n, 5))
  /\ (call.op = "tool_get_least_played_games" /\ game_analyzer # None) =>
       /\ ~IsRaised(result)
       /\ result = tool_get_least_played_games(Agent, Normalised(call.top_n, 5))
  /\ (call.op = "tool_list_unplayed_games" /\ analysis_data # None) =>
       /\ ~IsRaised(result)
       /\ result = tool_list_unplayed_games(Agent, Normalised(call.limit, 10))
  /\ (call.op = "tool_get_recently_played_games" /\ game_analyzer # None) =>
       /\ ~IsRaised(result)
       /\ result = tool_get_recently_played_games(
                     Agent, Normalised(call.days, 30),
                     Normalised(call.limit, 5), call.clock)
  /\ (call.op = "tool_get_neglected_games" /\ game_analyzer # None) =>
       /\ ~IsRaised(result)
       /\ result = tool_get_neglected_games(
                     Agent, Normalised(call.days, 365),
                     Normalised(call.limit, 5), call.clock)

\* C15: GameDataAnalyzer.get_most_played_games(limit) called with limit = 0
\* or a negative limit falls back to the default count, 10: it returns what
\* get_most_played_games(10) returns, min(10, number of records) entries,
\* rather than zero records.
C15_AnalyzerLimitFallsBack ==
  (call.op = "get_most_played_games" /\ call.limit <= 0) =>
    /\ Len(result) = Min(10, Len(Records))
    /\ result = get_most_played_games(game_analyzer, 10)

\* every record of the snapshot lacks name, appid, playtime and last-played
AllBare ==
  /\ game_analyzer # None
  /\ Records # <<>>
  /\ \A i \in 1..Len(Records) :
       DOMAIN Records[i] \cap {"name", "appid", "playtime_forever",
                               "rtime_last_played"} = {}

\* "Unknown Game", appid 0, 0.0 hours, "Never"
Placeholder ==
  [name           |-> <<85, 110, 107, 110, 111, 119, 110, 32, 71, 97, 109, 101>>,
   appid          |-> 0,
   playtime_hours |-> 0,
   last_played    |-> <<78, 101, 118, 101, 114>>]

AllPlaceholders(entries) ==
  \A k \in 1..Len(entries) : entries[k] = Placeholder

\* no argument of the call is float infinity, and the days asked for are
\* within the range of dates
OrdinaryArguments ==
  /\ \A key \in {"top_n", "limit", "days"} \cap DOMAIN call :
       call.op \in AnalyticsTools => ~int_raises(call[key])
  /\ ("days" \in DOMAIN call /\ call.op \in AnalyticsTools) =>
       ~cutoff_raises(call.clock, CoercePositive(call.days, 30))

\* C16: for a payload whose records miss every optional field, every entry
\* derived from a record carries the name "Unknown Game", appid 0, playtime
\* 0 hours and last_played "Never", and every query (total playtime, most
\* played, least played, unplayed, recently played, neglected, summary,
\* find_game_stats), called without an infinite argument and with days
\* within the range of dates, returns a result without raising.
C16_MissingFieldsDefaulted ==
  (AllBare /\ OrdinaryArguments) =>
    /\ call.op = "get_total_playtime" => result = 0
    /\ call.op = "get_most_played_games" => AllPlaceholders(result)
    /\ call.op = "get_unplayed_games" =>
         Len(result) = Len(Records) /\ AllPlaceholders(result)
    /\ call.op = "get_recently_played_games" => AllPlaceholders(result)
    /\ call.op = "get_neglected_games" => result = <<>>
    /\ call.op = "get_library_summary" =>
         /\ result.most_played_game =
              [name |-> Placeholder.name, playtime_hours |-> 0]
         /\ result.total_playtime = 0
         /\ result.unplayed_count = Len(Records)
    /\ call.op \in AnalyticsTools => ~IsRaised(result)
    /\ call.op = "tool_get_most_played_games" =>
         result.games # <<>> /\ AllPlaceholders(result.games)
    /\ call.op = "tool_get_least_played_games" => result.games = <<>>
    /\ call.op = "tool_list_unplayed_games" =>
         result.total_count = Len(Records) /\ AllPlaceholders(result.games)
    /\ call.op = "tool_get_recently_played_games" =>
         AllPlaceholders(result.games)
    /\ call.op = "tool_get_neglected_games" => result.games = <<>>
    /\ call.op = "tool_get_total_playtime" => result.total_hours = 0
    /\ (call.op = "tool_find_game_stats" /\ call.game_name # <<>>) =>
         result.found = FALSE

\* two records without any optional field: both are listed as unplayed under
\* the placeholder values
C16_Witness ==
  /\ call.op = "get_unplayed_games"
  /\ AllBare
  /\ Len(Records) = 2
  /\ result = <<Placeholder, Placeholder>>

\* C17: a last-played epoch of 0 means "never played" and is never compared
\* as a timestamp: for every days > 0 and every reading of the clock,
\* neither get_recently_played_games(days) nor get_neglected_games(days)
\* returns an entry of a record whose last-played epoch is 0.
C17_EpochZeroNeverListed ==
  (call.op \in {"get_recently_played_games", "get_neglected_games"}
     /\ call.days > 0) =>
    \A k \in 1..Len(result) :
      /\ result[k].last_played # <<78, 101, 118, 101, 114>>
      /\ \A i \in 1..Len(Records) :
           LastPlayedEpoch(Records[i]) = 0 =>
             \/ result[k].name # GameView(Records[i]).name
             \/ result[k].appid # GameView(Records[i]).appid
             \/ result[k].playtime_hours # GameView(Records[i]).playtime_hours

\* the analyzer queries
AnalyzerQueries ==
  {"get_total_playtime", "get_most_played_games", "get_unplayed_games",
   "get_recently_played_games", "get_neglected_games", "get_library_summary"}

\* C18: every analyzer query and every agent query tool leaves the snapshot
\* as it is: after the call the record list holds the same records in the
\* same order with the same field values, and declared_count is unchanged.
C18_QueriesLeaveSnapshot ==
  [][(/\ game_analyzer # None
      /\ AtPrompt
      /\ call'.op \in AnalyzerQueries \cup AnalyticsTools) =>
       /\ game_analyzer'.games = game_analyzer.games
       /\ game_analyzer'.game_count = game_analyzer.game_count
       /\ game_analyzer'.game_data = game_analyzer.game_data
       /\ library_data' = library_data]_vars

\* after get_most_played_games(1) has returned the second record, the more
\* played one, the record list still has it in second place
C18_Witness ==
  /\ call.op = "get_most_played_games"
  /\ call.limit = 1
  /\ Len(Records) = 2
  /\ PlaytimeMinutes(Records[1]) < PlaytimeMinutes(Records[2])
  /\ result = <<GameView(Records[2])>>
  /\ Records = library_data.game_data.games

\* find_game_stats answered from one record list
FindIn(games, game_name) ==
  IF exact_scan(games, game_name) # None
    THEN exact_scan(games, game_name)
    ELSE partial_scan(games, game_name)

\* C19: under any interleaving of query calls with each other and with a
\* reload, each query returns a result computed entirely from one snapshot,
\* the one before or the one after the reload, never from a mix; and an
\* analyzer built before the reload keeps answering from its own records
\* after it.
C19_QueryFromOneSnapshot ==
  /\ (call.op = "tool_find_game_stats" /\ "exact_scanned" \in DOMAIN call) =>
       \/ result = FindIn(call.exact_scanned, call.game_name)
       \/ result = FindIn(call.partial_scanned, call.game_name)
  /\ (call.op = "tool_get_most_played_games" /\ "analyzer" \in DOMAIN call) =>
       result = most_played_of(call.analyzer, call.top_n)

\* C20: load_user_data never raises.  When the validation, the fetch or the
\* load-time analysis fails it returns {"success": False, "error": message};
\* it returns success True only when library_data, game_analyzer and
\* analysis_data have all been set from the payload it fetched; and when the
\* failure happens before the fetch completes, the three fields keep the
\* values they had.
C20_LoadReportsFailure ==
  [][(load_frame' # load_frame /\ LoadAt("returned")') =>
       LET ret     == load_frame'.ret
           fetched == fetch(load_frame'.replies)
       IN  /\ "success" \in DOMAIN ret
           /\ ret.success \in BOOLEAN
           /\ ~ret.success => DOMAIN ret = {"success", "error"}
           /\ IsRaised(fetched) =>
                /\ ret = [success |-> FALSE, error |-> fetched.raised]
                /\ library_data' = library_data
                /\ game_analyzer' = game_analyzer
                /\ analysis_data' = analysis_data
           /\ (~IsRaised(fetched) /\ unreadable(fetched.game_data.games)) =>
                ~ret.success
           /\ ret.success =>
                /\ library_data' = LibraryData(fetched)
                /\ game_analyzer' = GameDataAnalyzer(fetched.game_data)
                /\ analysis_data' =
                     analyze(game_analyzer', fetched, load_frame'.clock)]_vars

\* a reload whose fetch fails on an agent that holds a snapshot: the call has
\* returned the error and the snapshot is there
C20_Witness ==
  /\ LoadAt("returned")
  /\ IsRaised(fetch(load_frame.replies))
  /\ load_frame.ret =
       [success |-> FALSE,
        error   |-> "Failed to get game data. Profile might be private."]
  /\ library_data # None
  /\ game_analyzer # None
  /\ analysis_data # None
  /\ \E t \in ClockReadings :
       analysis_data = analyze(game_analyzer, library_data, t)

\* the load-time copy is one that a load built and that no caller has
\* written into since
Unmutated ==
  \E replies \in AgentReplies, t \in ClockReadings :
     /\ ~IsRaised(fetch(replies))
     /\ analysis_data =
          analyze(GameDataAnalyzer(fetch(replies).game_data), fetch(replies), t)

\* list_unplayed_games(): the argument takes its default
DefaultLimit == IntArg(10)

\* C21: after a successful load, while no returned view has been written
\* into and no load is in progress, the tools that answer from the load-time
\* copy agree with the analyzer recomputed over the records it holds now: the
\* unplayed_count of get_library_summary, the total_count of
\* list_unplayed_games and the unplayed_games of get_total_game_count all
\* equal len(game_analyzer.get_unplayed_games()), which does not raise, and
\* list_unplayed_games shows as many games as it returns.
C21_LoadTimeCopyAgrees ==
  (analysis_data # None /\ Unmutated /\ LoadIdle) =>
    LET recomputed == get_unplayed_games(game_analyzer)
        listed     == tool_list_unplayed_games(Agent, DefaultLimit)
    IN  /\ ~unreadable(game_analyzer.games)
        /\ tool_get_library_summary(Agent).unplayed_count = Len(recomputed)
        /\ listed.total_count = Len(recomputed)
        /\ tool_get_total_game_count(Agent).unplayed_games = Len(recomputed)
        /\ listed.showing = Len(listed.games)

\* C22: every summary that get_library_summary returns, from the tool or
\* from the analyzer, whether or not the declared count equals the number
\* of records, has played_count >= 0, unplayed_count <= total_games and
\* played_count + unplayed_count = total_games.
C22_SummaryCountsConsistent ==
  (/\ call.op \in {"tool_get_library_summary", "get_library_summary"}
   /\ analysis_data # None) =>
    /\ result.played_count >= 0
    /\ result.unplayed_count <= result.total_games
    /\ result.played_count + result.unplayed_count = result.total_games

\* C23: every entry that get_neglected_games(days) returns, for days > 0,
\* has days_since_played >= days.
C23_NeglectedAtLeastDays ==
  (call.op = "get_neglected_games" /\ call.days > 0) =>
    \A k \in 1..Len(result) : result[k].days_since_played >= call.days

\* C24: in report mode the report is produced for every loaded library: no
\* expression of the report block raises, whatever the library holds, an
\* empty game list with most_played_game = None included
C24_ReportProduced == call.op = "report" => ~IsRaised(result)

\* the name a game is found by: its "name" field without regard to case; a
\* game without the field has no name to find it by (the views show it under
\* the placeholder "Unknown Game", which is not searched)
LookupName(game) == lower(Get(game, "name", <<>>))

\* needle occurs in hay as a run of consecutive characters
OccursIn(needle, hay) ==
  \E i \in 0..(Len(hay) - Len(needle)) :
    \A j \in 1..Len(needle) : hay[i + j] = needle[j]

\* the places in the library of the games named game_name
ExactAt(games, game_name) ==
  {k \in 1..Len(games) : LookupName(games[k]) = lower(game_name)}

\* the places in the library of the games whose name contains game_name
PartialAt(games, game_name) ==
  {k \in 1..Len(games) : OccursIn(lower(game_name), LookupName(games[k]))}

\* view with "found": True added
FoundView(view) ==
  [x \in DOMAIN view \cup {"found"} |->
     IF x = "found" THEN TRUE ELSE view[x]]

\* C25: find_game_stats(game_name) on a loaded snapshot.  An empty name
\* returns an error.  Otherwise, if some game's name equals game_name ignoring
\* case, the result is the single-game view of the first such game in library
\* order, whatever other games contain game_name; otherwise the result lists
\* the views of all games whose name contains game_name ignoring case, in
\* library order, with count the number listed; and found is False exactly
\* when no game matches.
C25_FindGameStats ==
  (/\ call.op = "tool_find_game_stats"
   /\ library_data # None
   /\ game_analyzer # None) =>
    LET games   == library_data.game_data.games
        exact   == ExactAt(games, call.game_name)
        partial == PartialAt(games, call.game_name)
        first   == CHOOSE k \in exact : \A j \in exact : k <= j
        Rank(k) == Cardinality({i \in partial : i <= k})
    IN  IF call.game_name = <<>>
          THEN result = [error |-> "No game name provided"]
          ELSE /\ exact # {} => result = FoundView(GameView(games[first]))
               /\ (exact = {} /\ partial # {}) =>
                    /\ DOMAIN result = {"matches", "count", "found"}
                    /\ result.found = TRUE
                    /\ result.count = Len(result.matches)
                    /\ Len(result.matches) = Cardinality(partial)
                    /\ \A k \in partial :
                         result.matches[Rank(k)] = GameView(games[k])
               /\ ("found" \in DOMAIN result /\ result.found = FALSE)
                    <=> (exact \cup partial = {})

\* a search whose name is the whole name of the second game and a part of the
\* name of the first: the answer is the view of the second game alone
C25_Witness ==
  /\ call.op = "tool_find_game_stats"
  /\ library_data # None
  /\ game_analyzer # None
  /\ call.game_name # <<>>
  /\ LET games == library_data.game_data.games
     IN  /\ Len(games) >= 2
         /\ 1 \notin ExactAt(games, call.game_name)
         /\ 1 \in PartialAt(games, call.game_name)
         /\ 2 \in ExactAt(games, call.game_name)
         /\ result = FoundView(GameView(games[2]))

\* C26: for one handler whose methods are called one after another, two
\* consecutive requests are started at least min_request_interval (one second)
\* apart, and validate_steam_id called with a 17-digit numeric id sends no
\* request.
C26_RateLimited ==
  [][/\ \A i \in 1..(Len(requests') - 1) :
          requests'[i + 1].at - requests'[i].at
            >= handler'.min_request_interval
     /\ (/\ call'.op = "validate_steam_id"
         /\ isdigit(call'.steam_id_or_vanity)
         /\ Len(call'.steam_id_or_vanity) = 17) => requests' = requests]_vars

\* a request method called less than a second after the previous request: it
\* has slept, and its request starts a second or more after the previous one;
\* and, in another run, a 17-digit id validated after a request
C26_Witness ==
  /\ handler # None
  /\ Len(requests) >= 2
  /\ call.op = "get_owned_games"
  /\ call.at - requests[Len(requests) - 1].at \in 1..9
  /\ requests[Len(requests)].at > call.at
  /\ requests[Len(requests)].at - requests[Len(requests) - 1].at >= 10

====
